---- MODULE Spec2Model ----
(***************************************************************************)
(* A model of the two programs of the repository:                          *)
(*   - create-redwood-app.js, the command-line scaffolder: argument        *)
(*     parsing, the Listr task sequence (version check, template copy,     *)
(*     yarn install, ts-to-js conversion, type generation) and the         *)
(*     then/catch handlers that end the process;                           *)
(*   - the Apollo provider, whose link chain (withToken, authMiddleware,   *)
(*     httpLink) decorates every outgoing request.                         *)
(* Strings the code inspects character by character are sequences of       *)
(* one-character strings; JavaScript values that may be null or undefined  *)
(* are tagged tuples.                                                      *)
(***************************************************************************)
EXTENDS Integers, Sequences, FiniteSets, TLC

\* ------------------------------------------------------------------ bounds
MaxArgs == 2
MaxArgLen == 1
MaxRequests == 2

ArgChars == {"a", ","}

\* ------------------------------------------------------------ scaffolder
VARIABLES
  args,            \* yargs' `_`: the positional arguments
  yarnInstall,     \* --yarn-install / --no-yarn-install
  typescript,      \* --typescript / --ts
  overwrite,       \* --overwrite
  targetDir,       \* String(args).replace(/,/g, '-')
  appDirExists,    \* fs.existsSync(newAppDir), read once at start-up
  fsDir,           \* the target directory on disk: absent, empty or nonempty
  dirAtStart,      \* what the target directory was when the process started
  unsatisfied,     \* engines of the template whose version is not satisfied
  rejections,      \* what the runtime does with an unhandled rejection
  taskState,       \* the state of each task of the Listr sequence
  procs,           \* the subprocesses running now
  spawned,         \* the commands handed to execa so far, in order
  started,         \* the tasks whose task() was called so far, in order
  renameState,     \* the promise of fs.rename(gitignore.template, .gitignore)
  error,           \* the error run() rejected with
  output,          \* the messages printed so far
  createdByRun,    \* whether this run made the target directory
  pc,              \* where the script is
  exitCode         \* the exit code, -1 while the process is alive

\* -------------------------------------------------------------- provider
VARIABLES
  auth,            \* what useAuth() returned to the provider
  fetchHeaders,    \* headers of useFetchConfig()
  userLink,        \* config.link: absent, a function of rwLink, or a link
  reqs             \* the operations passing through the link

cliVars == <<args, yarnInstall, typescript, overwrite, targetDir,
             appDirExists, fsDir, dirAtStart, unsatisfied, rejections, taskState, procs,
             spawned, started, renameState, error, output, createdByRun, pc,
             exitCode>>
providerVars == <<auth, fetchHeaders, userLink, reqs>>
vars == <<cliVars, providerVars>>

\* ------------------------------------------------------- strings of chars
SeqsUpTo(S, n) == UNION {[1..k -> S] : k \in 0..n}

RECURSIVE ArrayToString(_)
\* String(args): the elements joined by ","
ArrayToString(a) ==
  IF Len(a) = 0 THEN <<>>
  ELSE IF Len(a) = 1 THEN a[1]
  ELSE a[1] \o <<",">> \o ArrayToString(Tail(a))

\* .replace(/,/g, '-')
ReplaceCommas(s) == [i \in 1..Len(s) |-> IF s[i] = "," THEN "-" ELSE s[i]]

\* a variant that reads only the first argument: String(args[0])
TargetDirOf_FirstArg(a) ==
  IF Len(a) = 0 THEN <<"u", "n", "d", "e", "f", "i", "n", "e", "d">>
  ELSE ReplaceCommas(a[1])

TargetDirOf(a) == ReplaceCommas(ArrayToString(a))

\* ------------------------------------------------------------- the tasks
TaskOrder == <<"version", "directory", "install", "convert", "gentypes">>
Tasks == {TaskOrder[i] : i \in 1..Len(TaskOrder)}
IndexOf(t) == CHOOSE i \in 1..Len(TaskOrder) : TaskOrder[i] = t
Earlier(t) == {TaskOrder[i] : i \in 1..(IndexOf(t) - 1)}
Later(t) == {TaskOrder[i] : i \in (IndexOf(t) + 1)..Len(TaskOrder)}

Settled == {"completed", "skipped", "disabled"}

\* skip: () => { if (yarnInstall === false) return 'Warning: ...' }
VersionSkip == yarnInstall = FALSE
\* a variant with the test of the flag inverted
InstallSkip_Inverted == yarnInstall = TRUE
\* skip: () => { if (yarnInstall === false) return 'skipped on request' }
InstallSkip == yarnInstall = FALSE
\* a variant that forgets the install flag
ConvertEnabled_IgnoresInstall == typescript = FALSE
\* enabled: () => typescript === false && yarnInstall === true
ConvertEnabled == typescript = FALSE /\ yarnInstall = TRUE
\* skip: () => yarnInstall === false
GenTypesSkip == yarnInstall = FALSE

\* a variant with the test of --overwrite inverted
ChecksEmpty_Inverted == appDirExists /\ overwrite
\* line 138: the target directory has to be empty
ChecksEmpty == appDirExists /\ ~overwrite
\* line 140: fs.readdirSync(newAppDir).length > 0
DirNotEmpty == fsDir = "nonempty"
\* a variant that looks at node only
IsSatisfied_NodeOnly == "node" \notin unsatisfied
\* line 110: result.isSatisfied, every engine of the template is satisfied
IsSatisfied == unsatisfied = {}

\* Listr runs its tasks one after the other (concurrent: false) and stops at
\* the first error (exitOnError: true): a task is taken up when every task
\* before it is settled.
\* a variant of the runner with exitOnError: false
Ready_IgnoresErrors(t) ==
  /\ pc = "run"
  /\ taskState[t] = "pending"
  /\ \A u \in Earlier(t) : taskState[u] \in Settled \cup {"failed"}

\* a variant of the runner with concurrent: true
Ready_Concurrent(t) ==
  /\ pc = "run"
  /\ taskState[t] = "pending"

Ready(t) ==
  /\ pc = "run"
  /\ taskState[t] = "pending"
  /\ \A u \in Earlier(t) : taskState[u] \in Settled

\* Object.keys(result.versions).filter(not satisfied).map(message), then the
\* two lines about the documentation
EngineOrder == <<"node", "yarn">>
LogStatements ==
  SelectSeq(EngineOrder, LAMBDA n : n \in unsatisfied)
    \o <<"Visit requirements documentation:", "url">>

\* -------------------------------------------------------------- the steps
CliInit ==
  /\ args \in SeqsUpTo(SeqsUpTo(ArgChars, MaxArgLen), MaxArgs)
  /\ yarnInstall \in BOOLEAN
  /\ typescript \in BOOLEAN
  /\ overwrite \in BOOLEAN
  /\ targetDir = <<>>
  /\ appDirExists = FALSE
  /\ fsDir \in {"absent", "empty", "nonempty"}
  /\ dirAtStart = fsDir
  /\ unsatisfied \in SUBSET {"node", "yarn"}
  /\ rejections \in {"warn", "throw"}
  /\ taskState = [t \in Tasks |-> "pending"]
  /\ procs = {}
  /\ spawned = <<>>
  /\ started = <<>>
  /\ renameState = "none"
  /\ error = <<>>
  /\ output = {}
  /\ createdByRun = FALSE
  /\ pc = "start"
  /\ exitCode = -1

\* lines 74-93: the target directory from the arguments, or the usage hint
ParseArgs ==
  /\ pc = "start"
  /\ targetDir' = TargetDirOf(args)
  /\ IF TargetDirOf(args) = <<>>
     THEN /\ output' = output \cup {"usage"}
          /\ pc' = "exited"
          /\ exitCode' = 1
          /\ UNCHANGED appDirExists
     ELSE /\ appDirExists' = (fsDir # "absent")
          /\ pc' = "run"
          /\ UNCHANGED <<output, exitCode>>
  /\ UNCHANGED <<args, yarnInstall, typescript, overwrite, fsDir, dirAtStart,
                 unsatisfied, rejections, taskState, procs, spawned, started,
                 renameState, error, createdByRun, providerVars>>

\* execa(cmd, ...) called by the task t
ExecaStart(t, cmd) ==
  /\ taskState' = [taskState EXCEPT ![t] = "running"]
  /\ procs' = procs \cup {cmd}
  /\ spawned' = Append(spawned, cmd)
  /\ started' = Append(started, t)

\* the subprocess of the task t ends; a non-zero exit rejects the promise
ExecaExit(t, cmd) ==
  /\ pc = "run"
  /\ taskState[t] = "running"
  /\ cmd \in procs
  /\ procs' = procs \ {cmd}
  /\ \E ok \in BOOLEAN :
       IF ok
       THEN taskState' = [taskState EXCEPT ![t] = "completed"] /\ UNCHANGED error
       ELSE taskState' = [taskState EXCEPT ![t] = "failed"] /\ error' = <<cmd>>

\* lines 98-108: the version check is skipped or checkNodeVersion is called
VersionCheckTask ==
  /\ Ready("version")
  /\ IF VersionSkip
     THEN /\ taskState' = [taskState EXCEPT !["version"] = "skipped"]
          /\ UNCHANGED started
     ELSE /\ taskState' = [taskState EXCEPT !["version"] = "running"]
          /\ started' = Append(started, "version")
  /\ UNCHANGED <<args, yarnInstall, typescript, overwrite, targetDir,
                 appDirExists, fsDir, dirAtStart, unsatisfied, rejections, procs, spawned,
                 renameState, error, output, createdByRun, pc, exitCode,
                 providerVars>>

\* lines 109-131: the callback of checkNodeVersion
VersionCheckCallback ==
  /\ pc = "run"
  /\ taskState["version"] = "running"
  /\ IF IsSatisfied
     THEN /\ taskState' = [taskState EXCEPT !["version"] = "completed"]
          /\ UNCHANGED error
     ELSE /\ taskState' = [taskState EXCEPT !["version"] = "failed"]
          /\ error' = LogStatements
  /\ UNCHANGED <<args, yarnInstall, typescript, overwrite, targetDir,
                 appDirExists, fsDir, dirAtStart, unsatisfied, rejections, procs, spawned,
                 started, renameState, output, createdByRun, pc, exitCode,
                 providerVars>>

\* lines 135-156: the directory task, a synchronous function: the emptiness
\* check, the copy of the template, and the call of fs.rename whose promise
\* is neither returned nor awaited
CopyOutcomes == {"ok", "throwsBefore", "throwsAfterMkdir", "throwsPartway"}

DirAfterCopy(outcome) ==
  CASE outcome = "ok" -> "nonempty"
    [] outcome = "throwsBefore" -> fsDir
    [] outcome = "throwsAfterMkdir" -> IF fsDir = "absent" THEN "empty" ELSE fsDir
    [] outcome = "throwsPartway" -> "nonempty"

\* what the task function leaves of the rename when it returns after a copy
\* that went well: fs.rename(...) was called and its promise dropped
RenameAfterTask == "pending"

DirectoryTask ==
  /\ Ready("directory")
  /\ started' = Append(started, "directory")
  /\ IF ChecksEmpty /\ fsDir # "absent" /\ DirNotEmpty
     THEN \* console.error(...); process.exit(1)
          /\ output' = output \cup {"notEmpty"}
          /\ taskState' = [taskState EXCEPT !["directory"] = "aborted"]
          /\ pc' = "exited"
          /\ exitCode' = 1
          /\ UNCHANGED <<fsDir, renameState, error, createdByRun>>
     ELSE IF ChecksEmpty /\ fsDir = "absent"
     THEN \* fs.readdirSync throws
          /\ taskState' = [taskState EXCEPT !["directory"] = "failed"]
          /\ error' = <<"readdir">>
          /\ UNCHANGED <<fsDir, renameState, output, createdByRun, pc, exitCode>>
     ELSE \E outcome \in CopyOutcomes :
          /\ fsDir' = DirAfterCopy(outcome)
          /\ createdByRun' = (fsDir = "absent" /\ DirAfterCopy(outcome) # "absent")
          /\ IF outcome = "ok"
             THEN /\ renameState' = RenameAfterTask
                  /\ taskState' = [taskState EXCEPT !["directory"] = "completed"]
                  /\ UNCHANGED error
             ELSE /\ taskState' = [taskState EXCEPT !["directory"] = "failed"]
                  /\ error' = <<"copy">>
                  /\ UNCHANGED renameState
          /\ UNCHANGED <<output, pc, exitCode>>
  /\ UNCHANGED <<args, yarnInstall, typescript, overwrite, targetDir,
                 appDirExists, dirAtStart, unsatisfied, rejections, procs, spawned,
                 providerVars>>

\* the promise of fs.rename settles; nothing handles its rejection, so the
\* runtime either warns or ends the process with code 1
RenameSettle ==
  /\ pc # "exited"
  /\ renameState = "pending"
  /\ \E ok \in BOOLEAN :
       IF ok
       THEN /\ renameState' = "done"
            /\ UNCHANGED <<output, pc, exitCode, procs>>
       ELSE /\ renameState' = "failed"
            /\ IF rejections = "throw"
               THEN /\ output' = output \cup {"unhandledRejection"}
                    /\ pc' = "exited"
                    /\ exitCode' = 1
                    /\ procs' = {}
               ELSE /\ output' = output \cup {"unhandledRejectionWarning"}
                    /\ UNCHANGED <<pc, exitCode, procs>>
  /\ UNCHANGED <<args, yarnInstall, typescript, overwrite, targetDir,
                 appDirExists, fsDir, dirAtStart, unsatisfied, rejections, taskState,
                 spawned, started, error, createdByRun, providerVars>>

cliFrame == <<args, yarnInstall, typescript, overwrite, targetDir,
              appDirExists, fsDir, dirAtStart, unsatisfied, rejections, renameState,
              output, createdByRun, pc, exitCode, providerVars>>

\* lines 160-177: 'yarn install', skipped on --no-yarn-install
InstallTask ==
  /\ Ready("install")
  /\ IF InstallSkip
     THEN /\ taskState' = [taskState EXCEPT !["install"] = "skipped"]
          /\ UNCHANGED <<procs, spawned, started>>
     ELSE ExecaStart("install", "yarn install")
  /\ UNCHANGED <<cliFrame, error>>

InstallExit ==
  /\ ExecaExit("install", "yarn install")
  /\ UNCHANGED <<cliFrame, spawned, started>>

\* lines 189-198: 'yarn rw ts-to-js', not enabled with --typescript or
\* --no-yarn-install
ConvertTask ==
  /\ Ready("convert")
  /\ IF ~ConvertEnabled
     THEN /\ taskState' = [taskState EXCEPT !["convert"] = "disabled"]
          /\ UNCHANGED <<procs, spawned, started>>
     ELSE ExecaStart("convert", "yarn rw ts-to-js")
  /\ UNCHANGED <<cliFrame, error>>

ConvertExit ==
  /\ ExecaExit("convert", "yarn rw ts-to-js")
  /\ UNCHANGED <<cliFrame, spawned, started>>

\* lines 199-208: 'yarn rw-gen', skipped on --no-yarn-install
GenTypesTask ==
  /\ Ready("gentypes")
  /\ IF GenTypesSkip
     THEN /\ taskState' = [taskState EXCEPT !["gentypes"] = "skipped"]
          /\ UNCHANGED <<procs, spawned, started>>
     ELSE ExecaStart("gentypes", "yarn rw-gen")
  /\ UNCHANGED <<cliFrame, error>>

GenTypesExit ==
  /\ ExecaExit("gentypes", "yarn rw-gen")
  /\ UNCHANGED <<cliFrame, spawned, started>>

\* lines 213-262: run() resolved; the closing messages are printed
RunThen ==
  /\ pc = "run"
  /\ \A t \in Tasks : taskState[t] \in Settled
  /\ output' = output \cup {"thanks"}
  /\ pc' = "then"
  /\ UNCHANGED <<args, yarnInstall, typescript, overwrite, targetDir,
                 appDirExists, fsDir, dirAtStart, unsatisfied, rejections, taskState,
                 procs, spawned, started, renameState, error, createdByRun,
                 exitCode, providerVars>>

\* nothing is left to do: the process ends by itself with code 0
ProcessEnd ==
  /\ pc = "then"
  /\ renameState # "pending"
  /\ pc' = "exited"
  /\ exitCode' = 0
  /\ UNCHANGED <<args, yarnInstall, typescript, overwrite, targetDir,
                 appDirExists, fsDir, dirAtStart, unsatisfied, rejections, taskState,
                 procs, spawned, started, renameState, error, output,
                 createdByRun, providerVars>>

\* the condition of the warning of the catch handler: fs.existsSync(newAppDir)
WarnsCreated == fsDir # "absent"

\* lines 263-276: run() rejected; the error and, if the target directory
\* exists, the warning are printed and the process exits with code 1
RunCatch ==
  /\ pc = "run"
  /\ \E t \in Tasks : taskState[t] = "failed"
  /\ output' = output \cup {"error"}
               \cup (IF WarnsCreated THEN {"createdWarning"} ELSE {})
  /\ pc' = "exited"
  /\ exitCode' = 1
  /\ UNCHANGED <<args, yarnInstall, typescript, overwrite, targetDir,
                 appDirExists, fsDir, dirAtStart, unsatisfied, rejections, taskState,
                 procs, spawned, started, renameState, error, createdByRun,
                 providerVars>>

\* ---------------------------------------------------------------- provider
Null == <<"null">>
Undefined == <<"undefined">>
Str(s) == <<"string", s>>

\* JavaScript truthiness of the values a token can be
Truthy(v) == v[1] = "string" /\ v[2] # ""

AuthTypes == {"auth0", "netlify"}
TokenValues == {Null, Undefined, Str(""), Str("tok")}

NoHeaders == [n \in {} |-> ""]
FetchHeaderChoices ==
  { NoHeaders,
    [n \in {"x-custom"} |-> "1"],
    [n \in {"auth-provider", "authorization"} |->
       IF n = "auth-provider" THEN "auth0" ELSE "Bearer old"] }

\* { ...a, ...b }
Spread(a, b) ==
  [n \in DOMAIN a \cup DOMAIN b |-> IF n \in DOMAIN b THEN b[n] ELSE a[n]]

NewRequest ==
  [stage |-> "idle", token |-> Undefined, resolved |-> <<"notcalled">>,
   headers |-> <<"undefined">>]

ProviderIdle ==
  /\ auth = [isAuthenticated |-> FALSE, getToken |-> "absent", type |-> "auth0"]
  /\ fetchHeaders = NoHeaders
  /\ userLink = "absent"
  /\ reqs = [i \in 1..MaxRequests |-> NewRequest]

CliIdle ==
  /\ args = <<>> /\ yarnInstall = TRUE /\ typescript = FALSE
  /\ overwrite = FALSE /\ targetDir = <<>> /\ appDirExists = FALSE
  /\ fsDir = "absent" /\ dirAtStart = "absent" /\ unsatisfied = {} /\ rejections = "warn"
  /\ taskState = [t \in Tasks |-> "pending"] /\ procs = {} /\ spawned = <<>>
  /\ started = <<>> /\ renameState = "none" /\ error = <<>> /\ output = {}
  /\ createdByRun = FALSE /\ pc = "start" /\ exitCode = -1

\* lines 39-63: the provider is rendered
ProviderInit ==
  /\ auth \in [isAuthenticated : BOOLEAN, getToken : {"absent", "present"},
               type : AuthTypes]
  /\ fetchHeaders \in FetchHeaderChoices
  /\ userLink \in {"absent", "function", "link"}
  /\ reqs = [i \in 1..MaxRequests |-> NewRequest]

\* lines 110-116: the link of the client is rwLink, the user's function of
\* rwLink, or the user's own link instead of rwLink
UsesRwLink == userLink # "link"

\* the client hands an operation to its link
Execute(i) ==
  /\ reqs[i].stage = "idle"
  /\ reqs' = [reqs EXCEPT ![i].stage =
                IF UsesRwLink THEN "withToken" ELSE "userLink"]
  /\ UNCHANGED <<auth, fetchHeaders, userLink, cliVars>>

\* lines 53-61: withToken up to the await, or to its end without a getter
WithToken(i) ==
  /\ reqs[i].stage = "withToken"
  /\ IF auth.isAuthenticated /\ auth.getToken = "present"
     THEN reqs' = [reqs EXCEPT ![i].stage = "awaitToken"]
     ELSE reqs' = [reqs EXCEPT ![i].stage = "hasContext", ![i].token = Null]
  /\ UNCHANGED <<auth, fetchHeaders, userLink, cliVars>>

\* lines 55-57: getToken() settles
GetTokenSettle(i) ==
  /\ reqs[i].stage = "awaitToken"
  /\ \/ \E v \in TokenValues :
          reqs' = [reqs EXCEPT ![i].stage = "hasContext", ![i].token = v,
                               ![i].resolved = v]
     \/ reqs' = [reqs EXCEPT ![i].stage = "error",
                             ![i].resolved = <<"rejected">>]
  /\ UNCHANGED <<auth, fetchHeaders, userLink, cliVars>>

\* a variant that leaves the provider type out
AuthHeaders_NoProvider(token) ==
  IF Truthy(token)
  THEN [n \in {"authorization"} |-> "Bearer " \o token[2]]
  ELSE NoHeaders

\* lines 71-76
AuthHeaders(token) ==
  IF Truthy(token)
  THEN [n \in {"auth-provider", "authorization"} |->
          IF n = "auth-provider" THEN auth.type ELSE "Bearer " \o token[2]]
  ELSE NoHeaders

\* lines 65-87: authMiddleware
AuthMiddleware(i) ==
  /\ reqs[i].stage = "hasContext"
  /\ reqs' = [reqs EXCEPT
                ![i].stage = "decorated",
                ![i].headers =
                   <<"object", Spread(fetchHeaders, AuthHeaders(reqs[i].token))>>]
  /\ UNCHANGED <<auth, fetchHeaders, userLink, cliVars>>

\* line 95: the terminating link sends the operation
HttpLinkSend(i) ==
  /\ reqs[i].stage = "decorated"
  /\ reqs' = [reqs EXCEPT ![i].stage = "sent"]
  /\ UNCHANGED <<auth, fetchHeaders, userLink, cliVars>>

\* --------------------------------------------------------- specifications
Init == CliInit /\ ProviderIdle

Next ==
  \/ ParseArgs
  \/ VersionCheckTask
  \/ VersionCheckCallback
  \/ DirectoryTask
  \/ RenameSettle
  \/ InstallTask
  \/ InstallExit
  \/ ConvertTask
  \/ ConvertExit
  \/ GenTypesTask
  \/ GenTypesExit
  \/ RunThen
  \/ ProcessEnd
  \/ RunCatch

Spec == Init /\ [][Next]_vars

InitProvider == ProviderInit /\ CliIdle

NextProvider ==
  \/ \E i \in 1..MaxRequests : Execute(i)
  \/ \E i \in 1..MaxRequests : WithToken(i)
  \/ \E i \in 1..MaxRequests : GetTokenSettle(i)
  \/ \E i \in 1..MaxRequests : AuthMiddleware(i)
  \/ \E i \in 1..MaxRequests : HttpLinkSend(i)

ProviderSpec == InitProvider /\ [][NextProvider]_vars

\* ------------------------------------------------------------- properties
Range(f) == {f[i] : i \in DOMAIN f}
Exited == pc = "exited"

\* C1: a task that failed is the last one started, the process then exits
\* with code 1, and the process exits with code 0 only when every task
\* completed, was skipped or was disabled.
C1_FailureStopsRun ==
  /\ \A t \in Tasks :
       taskState[t] \in {"failed", "aborted"} =>
         /\ \A u \in Later(t) : taskState[u] = "pending" /\ u \notin Range(started)
         /\ pc \in {"run", "exited"}
         /\ Exited => exitCode = 1
  /\ exitCode = 0 => \A t \in Tasks : taskState[t] \in Settled

C1_Witness ==
  /\ taskState["install"] = "failed"
  /\ Exited
  /\ exitCode = 1

\* C2: a target directory that is there and not empty at start-up, without
\* --overwrite, is never copied into, no subprocess is started, and the
\* exit code is 1.
C2_NonEmptyDirRefused ==
  (dirAtStart = "nonempty" /\ ~overwrite) =>
    /\ taskState["directory"] \in {"pending", "aborted"}
    /\ fsDir = "nonempty"
    /\ renameState = "none"
    /\ spawned = <<>>
    /\ procs = {}
    /\ Exited => exitCode = 1

C2_Witness ==
  /\ dirAtStart = "nonempty"
  /\ ~overwrite
  /\ "notEmpty" \in output
  /\ Exited
  /\ exitCode = 1

\* C3 as stated: with unsatisfied engine versions the exit code is 1,
\* whatever the flags.
C3_Original == (unsatisfied # {} /\ Exited) => exitCode = 1

\* C3 amended: with unsatisfied engine versions and without
\* --no-yarn-install, no task after the version check is started and the
\* exit code is 1, whatever --typescript and --overwrite are.
C3_UnsatisfiedVersionsFail ==
  (unsatisfied # {} /\ yarnInstall) =>
    /\ taskState["version"] # "completed"
    /\ \A u \in Later("version") : taskState[u] = "pending"
    /\ Exited => exitCode = 1

C3_Witness ==
  /\ unsatisfied = {"yarn"}
  /\ yarnInstall
  /\ taskState["version"] = "failed"
  /\ Exited
  /\ exitCode = 1

\* C4: with --no-yarn-install neither 'yarn install' nor 'yarn rw-gen' is
\* ever executed.
C4_NoInstallNoTypes ==
  ~yarnInstall =>
    /\ "yarn install" \notin Range(spawned)
    /\ "yarn rw-gen" \notin Range(spawned)
    /\ taskState["install"] \in {"pending", "skipped"}
    /\ taskState["gentypes"] \in {"pending", "skipped"}

C4_Witness ==
  /\ ~yarnInstall
  /\ taskState["install"] = "skipped"
  /\ taskState["gentypes"] = "skipped"
  /\ exitCode = 0

\* C5: an operation that went through authMiddleware carries
\* 'authorization: Bearer <token>' and 'auth-provider: <type>' when the
\* accessor is authenticated with a getter that resolved to a non-empty
\* token; otherwise its token is absent and its headers are the headers of
\* the fetch configuration.
C5_AuthHeaders ==
  \A i \in 1..MaxRequests :
    reqs[i].stage \in {"decorated", "sent"} =>
      LET r == reqs[i]
          h == r.headers[2]
      IN IF /\ auth.isAuthenticated
            /\ auth.getToken = "present"
            /\ r.resolved[1] = "string"
            /\ r.resolved[2] # ""
         THEN /\ r.headers[1] = "object"
              /\ {"authorization", "auth-provider"} \subseteq DOMAIN h
              /\ h["authorization"] = "Bearer " \o r.resolved[2]
              /\ h["auth-provider"] = auth.type
              /\ \A n \in DOMAIN fetchHeaders \ {"authorization", "auth-provider"} :
                   n \in DOMAIN h /\ h[n] = fetchHeaders[n]
         ELSE /\ r.token \in {Null, Undefined, Str("")}
              /\ (~auth.isAuthenticated \/ auth.getToken = "absent") => r.token = Null
              /\ r.headers = <<"object", fetchHeaders>>

C5_Witness ==
  /\ reqs[1].stage = "sent"
  /\ reqs[1].resolved = Str("tok")
  /\ reqs[2].stage = "sent"
  /\ reqs[2].resolved = Null
  /\ DOMAIN fetchHeaders = {"x-custom"}

\* C6: the tasks start in the order version check, template copy, package
\* install, conversion, type generation, each after the ones before it are
\* over, and at most one subprocess runs at a time.
C6_SequentialTasks ==
  /\ \A i, j \in 1..Len(started) :
       i < j => IndexOf(started[i]) < IndexOf(started[j])
  /\ \A t \in Tasks :
       taskState[t] \notin {"pending"} =>
         \A u \in Earlier(t) : taskState[u] \in Settled
  /\ Cardinality(procs) <= 1
  /\ Cardinality({t \in Tasks : taskState[t] = "running"}) <= 1

C6_Witness ==
  /\ started = TaskOrder
  /\ spawned = <<"yarn install", "yarn rw ts-to-js", "yarn rw-gen">>
  /\ procs = {"yarn rw-gen"}

\* C7: without a positional argument the usage hint is printed and the
\* process exits with code 1 before any task: no version check, nothing
\* written to the directory, no subprocess.
C7_MissingDirectory ==
  args = <<>> =>
    /\ pc \in {"start", "exited"}
    /\ Exited => (exitCode = 1 /\ output = {"usage"})
    /\ \A t \in Tasks : taskState[t] = "pending"
    /\ started = <<>>
    /\ spawned = <<>>
    /\ fsDir = dirAtStart
    /\ renameState = "none"

C7_Witness ==
  /\ args = <<>>
  /\ Exited
  /\ exitCode = 1
  /\ "usage" \in output

\* C8: after a run that failed, the 'was created' warning has been printed
\* exactly when this run made the target directory.
C8_WarningIffCreated ==
  (Exited /\ exitCode = 1) => ("createdWarning" \in output <=> createdByRun)

C10_RenameWithinTask ==
  /\ taskState["directory"] = "completed" => renameState = "done"
  /\ renameState = "failed" =>
       /\ taskState["directory"] = "failed"
       /\ Exited => exitCode = 1
====
